---- MODULE Spec2Model ----
(***************************************************************************)
(* A model of the synacore virtual machine (src/src/main.rs): the unified  *)
(* address space of 32768 memory cells and 8 register cells, the stack,    *)
(* the instruction pointer, the input queue and the dispatch loop of       *)
(* VM::run, one action per opcode.                                         *)
(***************************************************************************)
EXTENDS Integers, Sequences, FiniteSets, TLC

\* ------------------------------------------------------------------ bounds
\* push and call are not taken once the stack holds MaxStack words
MaxStack == 5
\* out is not taken once MaxOut characters were emitted
MaxOut == 3
\* at most MaxPulled lines are pulled from the line source in one run
MaxPulled == 2
\* number of completed stack operations remembered in hist
HistLen == 6

\* ------------------------------------------------------- program constants
LIMIT == 32768
\* number of register cells appended to the address space (VM::new)
NumRegs == 8
\* cells are u16
U16 == 65536
\* out truncates to u8
U8 == 256
\* mask of opcode 14 (not): 0b0111_1111_1111_1111
Mask15 == 32767
\* '\n' and '.'
NL == 10
DOT == 46
SPACE == 32

\* mem.len(): LIMIT as usize + 8
Size == LIMIT + NumRegs

\* operand word naming register i
R(i) == LIMIT + i

\* ------------------------------------------------------------ the memory
\* mem is kept as the function of its non-zero cells; every other cell of
\* 0..Size-1 holds 0 (vec![0; size]).
Read(m, a) == IF a \in DOMAIN m THEN m[a] ELSE 0

Write(m, a, v) ==
    IF v = 0
    THEN [x \in (DOMAIN m) \ {a} |-> m[x]]
    ELSE [x \in (DOMAIN m) \cup {a} |-> IF x = a THEN v ELSE m[x]]

\* indexing self.mem[i] panics when i is out of bounds
IndexOk(i) == i < Size

Min(a, b) == IF a < b THEN a ELSE b

\* the canned lines VM::run puts in the input queue before the loop starts
Script == <<
    \* 152: "take tablet"
    <<116,97,107,101,32,116,97,98,108,101,116>>,
    \* 153: "go doorway"
    <<103,111,32,100,111,111,114,119,97,121>>,
    \* 154: "go north"
    <<103,111,32,110,111,114,116,104>>,
    \* 155: "go north"
    <<103,111,32,110,111,114,116,104>>,
    \* 156: "go bridge"
    <<103,111,32,98,114,105,100,103,101>>,
    \* 157: "go continue"
    <<103,111,32,99,111,110,116,105,110,117,101>>,
    \* 158: "go down"
    <<103,111,32,100,111,119,110>>,
    \* 159: "go east"
    <<103,111,32,101,97,115,116>>,
    \* 160: "take empty lantern"
    <<116,97,107,101,32,101,109,112,116,121,32,108,97,110,116,101,114,110>>,
    \* 161: "go west"
    <<103,111,32,119,101,115,116>>,
    \* 162: "go west"
    <<103,111,32,119,101,115,116>>,
    \* 163: "go passage"
    <<103,111,32,112,97,115,115,97,103,101>>,
    \* 164: "go ladder"
    <<103,111,32,108,97,100,100,101,114>>,
    \* 165: "go west"
    <<103,111,32,119,101,115,116>>,
    \* 166: "go south"
    <<103,111,32,115,111,117,116,104>>,
    \* 167: "go north"
    <<103,111,32,110,111,114,116,104>>,
    \* 168: "take can"
    <<116,97,107,101,32,99,97,110>>,
    \* 169: "use can"
    <<117,115,101,32,99,97,110>>,
    \* 170: "use lantern"
    <<117,115,101,32,108,97,110,116,101,114,110>>,
    \* 171: "go west"
    <<103,111,32,119,101,115,116>>,
    \* 172: "go ladder"
    <<103,111,32,108,97,100,100,101,114>>,
    \* 173: "go darkness"
    <<103,111,32,100,97,114,107,110,101,115,115>>,
    \* 174: "continue"
    <<99,111,110,116,105,110,117,101>>,
    \* 175: "go west"
    <<103,111,32,119,101,115,116>>,
    \* 176: "go west"
    <<103,111,32,119,101,115,116>>,
    \* 177: "go west"
    <<103,111,32,119,101,115,116>>,
    \* 178: "go west"
    <<103,111,32,119,101,115,116>>,
    \* 179: "go north"
    <<103,111,32,110,111,114,116,104>>,
    \* 180: "take red coin"
    <<116,97,107,101,32,114,101,100,32,99,111,105,110>>,
    \* 181: "go north"
    <<103,111,32,110,111,114,116,104>>,
    \* 182: "go west"
    <<103,111,32,119,101,115,116>>,
    \* 183: "take blue coin"
    <<116,97,107,101,32,98,108,117,101,32,99,111,105,110>>,
    \* 184: "go up"
    <<103,111,32,117,112>>,
    \* 185: "take shiny coin"
    <<116,97,107,101,32,115,104,105,110,121,32,99,111,105,110>>,
    \* 186: "go down"
    <<103,111,32,100,111,119,110>>,
    \* 187: "go east"
    <<103,111,32,101,97,115,116>>,
    \* 188: "go east"
    <<103,111,32,101,97,115,116>>,
    \* 189: "take concave coin"
    <<116,97,107,101,32,99,111,110,99,97,118,101,32,99,111,105,110>>,
    \* 190: "go down"
    <<103,111,32,100,111,119,110>>,
    \* 191: "take corroded coin"
    <<116,97,107,101,32,99,111,114,114,111,100,101,100,32,99,111,105,110>>,
    \* 192: "go up"
    <<103,111,32,117,112>>,
    \* 193: "go west"
    <<103,111,32,119,101,115,116>>,
    \* 195: "use blue coin"
    <<117,115,101,32,98,108,117,101,32,99,111,105,110>>,
    \* 196: "use red coin"
    <<117,115,101,32,114,101,100,32,99,111,105,110>>,
    \* 197: "use shiny coin"
    <<117,115,101,32,115,104,105,110,121,32,99,111,105,110>>,
    \* 198: "use concave coin"
    <<117,115,101,32,99,111,110,99,97,118,101,32,99,111,105,110>>,
    \* 199: "use corroded coin"
    <<117,115,101,32,99,111,114,114,111,100,101,100,32,99,111,105,110>>,
    \* 200: "go north"
    <<103,111,32,110,111,114,116,104>>,
    \* 201: "take teleporter"
    <<116,97,107,101,32,116,101,108,101,112,111,114,116,101,114>>,
    \* 202: "use teleporter"
    <<117,115,101,32,116,101,108,101,112,111,114,116,101,114>>,
    \* 203: "take business card"
    <<116,97,107,101,32,98,117,115,105,110,101,115,115,32,99,97,114,100>>,
    \* 204: "take strange book"
    <<116,97,107,101,32,115,116,114,97,110,103,101,32,98,111,111,107>>
>>

\* ------------------------------------------------------ operand resolution
\* reg_offset: only used to format the trace
reg_offset(arg) == IF arg >= LIMIT THEN arg - LIMIT ELSE arg

\* mutant: no operand word is rejected
convert_arg_ok_unchecked(addr) == TRUE

\* convert_arg panics on addr > LIMIT + 8 and on the out-of-bounds index that
\* addr = LIMIT + 8 gives
convert_arg_ok(addr) == ~(addr > LIMIT + 8) /\ (addr >= LIMIT => IndexOk(addr))

\* mutant: the register is never looked up
convert_arg_literal(m, addr) == addr

convert_arg(m, addr) == IF addr >= LIMIT THEN Read(m, addr) ELSE addr

\* store panics on addr > LIMIT + 8 and on the out-of-bounds index
store_ok(addr) == ~(addr > LIMIT + 8) /\ IndexOk(addr)

store(m, addr, val) == Write(m, addr, val)

\* regs(idx): the content of register idx
regs(m, idx) == Read(m, LIMIT + idx)

\* ------------------------------------------------------------- arithmetic
RECURSIVE BitAnd(_, _)
BitAnd(a, b) ==
    IF a = 0 \/ b = 0 THEN 0
    ELSE (a % 2) * (b % 2) + 2 * BitAnd(a \div 2, b \div 2)

RECURSIVE BitOr(_, _)
BitOr(a, b) ==
    IF a = 0 THEN b
    ELSE IF b = 0 THEN a
    ELSE (IF a % 2 = 1 \/ b % 2 = 1 THEN 1 ELSE 0) + 2 * BitOr(a \div 2, b \div 2)

\* u16 addition overflows above 65535: a panic in a build with overflow
\* checks, a wrap-around in a build without them
add_overflows(b_val, c_val) == b_val + c_val >= U16

\* mutant: the sum is not reduced modulo 32768
add_result_nomod(b_val, c_val) == (b_val + c_val) % U16

add_result(b_val, c_val) == ((b_val + c_val) % U16) % LIMIT

\* the product is taken in u32, where it cannot overflow; the factors are
\* reduced first only to keep the product within 32-bit integers
mult_result(b_val, c_val) == ((b_val % LIMIT) * (c_val % LIMIT)) % LIMIT

\* mutant: the quotient instead of the remainder
mod_result_quotient(b_val, c_val) == b_val \div c_val

\* b_val % c_val in u16, for a non-zero c_val
mod_result(b_val, c_val) == b_val % c_val

\* mutant: the complement is not masked to 15 bits
not_result_unmasked(b_val) == (U16 - 1) - b_val

\* !b_val & 0b0111_1111_1111_1111
not_result(b_val) == BitAnd((U16 - 1) - b_val, Mask15)

\* mutant: the value is not truncated to 8 bits
out_char_untruncated(a_val) == a_val

\* a_val as u8 as char
out_char(a_val) == a_val % U8

\* val as u16, of a char
in_code(c) == c % U16

\* -------------------------------------------------------------- the stack
\* mutant: the word is pushed at the wrong end
stack_push_front(s, v) == <<v>> \o s

stack_push(s, v) == Append(s, v)

\* mutant: None is replaced by 0 (unwrap_or) instead of panicking
vec_pop_or_zero(s) == IF Len(s) = 0 THEN 0 ELSE s[Len(s)]

\* what Vec::pop returns: the last word, or -1 for None
vec_pop(s) == IF Len(s) = 0 THEN -1 ELSE s[Len(s)]

stack_pop(s) == SubSeq(s, 1, Len(s) - 1)

\* mutant: the pushed address is that of the operand
call_return_operand(p) == (p + 1) % U16

\* (self.ip + 2) as u16
call_return(p) == (p + 2) % U16

\* ------------------------------------------------------- debug directives
\* line.split(" ")
RECURSIVE Split(_)
Split(s) ==
    IF \A i \in 1..Len(s) : s[i] # SPACE THEN <<s>>
    ELSE LET k == CHOOSE i \in 1..Len(s) :
                      s[i] = SPACE /\ \A j \in 1..(i - 1) : s[j] # SPACE
         IN <<SubSeq(s, 1, k - 1)>> \o Split(SubSeq(s, k + 1, Len(s)))

\* char::to_digit: -1 when c is no digit of the radix
DigitVal(c, radix) ==
    LET d == IF c >= 48 /\ c <= 57 THEN c - 48
             ELSE IF c >= 97 /\ c <= 122 THEN c - 87
             ELSE IF c >= 65 /\ c <= 90 THEN c - 55
             ELSE -1
    IN IF d >= 0 /\ d < radix THEN d ELSE -1

RECURSIVE ParseDigits(_, _, _)
ParseDigits(s, radix, acc) ==
    IF s = <<>> THEN acc
    ELSE LET d == DigitVal(Head(s), radix)
         IN IF d < 0 \/ acc * radix + d >= U16 THEN -1
            ELSE ParseDigits(Tail(s), radix, acc * radix + d)

\* u16::from_str_radix: the value, or -1 for Err (empty, a sign alone, a
\* character that is no digit, a value above 65535); one leading '+' is accepted
from_str_radix(s, radix) ==
    LET t == IF s # <<>> /\ Head(s) = 43 THEN Tail(s) ELSE s
    IN IF t = <<>> THEN -1 ELSE ParseDigits(t, radix, 0)

\* the directive names "wmem", "wreg", "debug"
WMEM == <<119, 109, 101, 109>>
WREG == <<119, 114, 101, 103>>
DEBUG == <<100, 101, 98, 117, 103>>

\* handle_debug(line): the memory and debug flag it leaves, the message it
\* prints before the closing empty line ("" when it prints none), and whether
\* the indexing of wmem panicked
handle_debug(m, d, line) ==
    LET parts == Split(Tail(line))
        same(msg) == [mem |-> m, debug |-> d, panic |-> FALSE, msg |-> msg]
    IN IF parts[1] = WMEM THEN
           IF Len(parts) >= 3 THEN
               LET a == from_str_radix(parts[2], 16)
                   v == from_str_radix(parts[3], 16)
               IN IF a >= 0 /\ v >= 0 THEN
                      IF IndexOk(a)
                      THEN [mem |-> Write(m, a, v), debug |-> d, panic |-> FALSE,
                            msg |-> "wmem"]
                      ELSE [mem |-> m, debug |-> d, panic |-> TRUE, msg |-> "wmem"]
                  ELSE same("error parsing arguments for wmem")
           ELSE same("not enough arguments for wmem")
       ELSE IF parts[1] = WREG THEN
           IF Len(parts) >= 3 THEN
               LET r == from_str_radix(parts[2], 10)
                   v == from_str_radix(parts[3], 10)
               IN IF r >= 0 /\ v >= 0 THEN
                      IF r > 7 THEN same("invalid register")
                      ELSE [mem |-> Write(m, r + LIMIT, v), debug |-> d,
                            panic |-> FALSE, msg |-> "wreg"]
                  ELSE same("error parsing arguments for wreg")
           ELSE same("not enough arguments for wreg")
       ELSE IF parts[1] = DEBUG THEN
           [mem |-> m, debug |-> ~d, panic |-> FALSE, msg |-> "switched debug mode"]
       ELSE same("")

\* mutant: the line terminator is not appended
add_to_buffer_noterm(buf, input) == buf \o input

\* add_to_buffer(input): the characters of the line, then '\n'
add_to_buffer(buf, input) == buf \o input \o <<NL>>

RECURSIVE add_all(_, _)
add_all(buf, ls) ==
    IF ls = <<>> THEN buf ELSE add_all(add_to_buffer(buf, Head(ls)), Tail(ls))

\* mutant: the reserved prefix is not recognised
starts_directive_never(buf) == FALSE

\* self.input_buffer[0] == '.'
starts_directive(buf) == buf[1] = DOT

\* The pull loop of opcode 20 over the lines ls the line source supplies:
\* every line is pushed on the queue with its '\n'; a line starting with '.'
\* is handed to handle_debug and the queue cleared. The loop ends when the
\* queue is not empty (done), when handle_debug panics (panic), or waits for
\* a further line (neither).
RECURSIVE pull(_, _, _, _)
pull(m, d, ls, n) ==
    IF ls = <<>>
    THEN [mem |-> m, debug |-> d, buf |-> <<>>, n |-> n, done |-> FALSE,
          panic |-> FALSE, msgs |-> <<>>]
    ELSE LET input == Head(ls)
             buf == add_to_buffer(<<>>, input)
         IN IF starts_directive(buf)
            THEN LET h == handle_debug(m, d, input)
                 IN IF h.panic
                    THEN [mem |-> m, debug |-> d, buf |-> buf, n |-> n + 1,
                          done |-> FALSE, panic |-> TRUE, msgs |-> <<h.msg>>]
                    ELSE LET r == pull(h.mem, h.debug, Tail(ls), n + 1)
                         IN [r EXCEPT !.msgs = <<h.msg>> \o r.msgs]
            ELSE [mem |-> m, debug |-> d, buf |-> buf, n |-> n + 1,
                  done |-> TRUE, panic |-> FALSE, msgs |-> <<>>]

\* ------------------------------------------------------------ the inputs
\* lines the line source may supply
LineEmpty == <<>>
\* "a"
LineA == <<97>>
\* "a."
LineADot == <<97, DOT>>
\* "."
LineDot == <<DOT>>
\* ".debug"
LineDebug == <<DOT>> \o DEBUG
\* ".wreg 1 7"
LineWreg == <<DOT>> \o WREG \o <<SPACE, 49, SPACE, 55>>
\* ".wreg 8 7"
LineWregBad == <<DOT>> \o WREG \o <<SPACE, 56, SPACE, 55>>
\* ".wmem 1 a"
LineWmem == <<DOT>> \o WMEM \o <<SPACE, 49, SPACE, 97>>
\* ".wmem 8001 2"
LineWmemReg == <<DOT>> \o WMEM \o <<SPACE, 56, 48, 48, 49, SPACE, 50>>
\* ".wmem 8008 1"
LineWmemEnd == <<DOT>> \o WMEM \o <<SPACE, 56, 48, 48, 56, SPACE, 49>>
\* ".wmem x 1"
LineWmemBad == <<DOT>> \o WMEM \o <<SPACE, 120, SPACE, 49>>
\* ".x"
LineUnknown == <<DOT, 120>>
\* ".wmem 1"
LineWmemShort == <<DOT>> \o WMEM \o <<SPACE, 49>>
\* ".wreg 1 x"
LineWregParse == <<DOT>> \o WREG \o <<SPACE, 49, SPACE, 120>>
\* one character outside the 16-bit range, U+1F600
LineWide == <<128512>>

Lines == {LineEmpty, LineA, LineADot, LineDot, LineDebug, LineWreg, LineWregBad,
          LineWmem, LineWmemReg, LineWmemEnd, LineWmemBad, LineUnknown,
          LineWmemShort, LineWregParse, LineWide}

\* what the line source may supply during one in instruction
Pulls == UNION {[1..n -> Lines] : n \in 1..MaxPulled}

\* the test of the repository
TestSimple == <<9, 32768, 32769, 4, 19, 32768>>

\* rmem r0 [7]; wmem r0 5; halt; v
AddrVals == {3, 32767, 32768, 32769, 32775, 32776, 40000}
WmemProgs == {<<15, R(0), 7, 16, R(0), 5, 0, v>> : v \in AddrVals}
               \cup {<<16, 4, 9, 0, 0>>, <<16, R(0), R(1), 0>>}

\* rmem r0 [11]; set r6 o6; set r7 o7; jmp r0; t
EdgeOps == {0, 1, 2, 19, 20, 21}
EdgeTargets == {32774, 32775, 32776, 40000}
EdgeProgs == {<<15, R(0), 11, 1, R(6), o6, 1, R(7), o7, 6, R(0), t>> :
                  o6 \in EdgeOps, o7 \in EdgeOps, t \in EdgeTargets}
               \cup {<<15, R(0), 12, 1, R(6), 17, 1, R(7), 11, 6, R(0), 18, 32774>>}

\* push 7; op dest ...; halt
Operands(op) ==
    IF op \in {3, 20} THEN <<>>
    ELSE IF op \in {1, 14, 15} THEN <<7>>
    ELSE <<7, 3>>
RegWriters == {1, 3, 4, 5, 9, 10, 11, 12, 13, 14, 15, 20}
Dests == {32768, 32775, 5, 100, 32776, 40000}
DestProgs == {<<2, 7, op, dest>> \o Operands(op) \o <<0>> :
                  op \in RegWriters, dest \in Dests}
               \cup {<<3, dest>> : dest \in Dests}

\* add r0 b c; mult r1 b c; halt
ArithVals == {0, 1, 200, 16384, 32767}
ArithProgs == {<<9, R(0), b, c, 10, R(1), b, c, 0>> : b \in ArithVals, c \in ArithVals}

\* rmem r1 [8]; op r0 r1 r1; halt; v
BigVals == {32768, 40000, 65535}
BigProgs == {<<15, R(1), 8, op, R(0), R(1), R(1), 0, v>> :
                 op \in {4, 5, 9, 10, 11, 12, 13}, v \in BigVals}
              \cup {<<11, R(0), 5, 0>>, <<14, R(0), 0, 0>>, <<12, R(0), 12, 10, 13, R(1), 12, 10>>}

\* push 9; push a; push b; push c; pop r0; pop r1; pop r2; halt
StackVals == {1, 2}
StackProgs == {<<2, 9, 2, a, 2, b, 2, c, 3, R(0), 3, R(1), 3, R(2), 0>> :
                   a \in StackVals, b \in StackVals, c \in StackVals}

CallProgs == {
    \* call 4; halt; -; ret
    <<17, 4, 0, 0, 18>>,
    \* call 5; out 'A'; halt; push 8; pop r0; ret
    <<17, 5, 19, 65, 0, 2, 8, 3, R(0), 18>>,
    \* call 4; halt; -; push 6; ret (returns to the pushed 6); ret
    <<17, 4, 0, 0, 2, 6, 18, 0>>,
    \* push 3; call 6; pop r1; ret
    <<2, 3, 17, 6, 3, R(1), 18>>,
    \* call 0, for ever
    <<17, 0>>,
    \* set r0 6; call r0; halt; ret
    <<1, R(0), 6, 17, R(0), 0, 18>>,
    \* call 3; ret; call 2 (returns to 5); halt
    <<17, 3, 18, 17, 2, 0>>
}

JumpProgs == {<<op, c, 4, 0, 19, 66, 0>> : op \in {7, 8}, c \in {0, 1}}

\* eq r0 b c; gt r1 b c; halt
CmpVals == {0, 1, 32767}
CmpProgs == {<<4, R(0), b, c, 5, R(1), b, c, 0>> : b \in CmpVals, c \in CmpVals}

\* rmem r1 [7]; not r0 r1; halt; v
NotVals == {0, 1, 21845, 32767, 32768, 40000, 65535}
NotProgs == {<<15, R(1), 7, 14, R(0), R(1), 0, v>> : v \in NotVals}

\* set r0 9; set r7 11; one instruction with the word w as a value operand; halt
ValWords == {5, 32767, 32768, 32775, 32776, 40000, 65535}
ValInstrs(w) == {<<1, R(1), w>>, <<2, w>>, <<9, R(1), w, 3>>, <<9, R(1), 3, w>>,
                 <<6, w>>, <<7, w, 12>>, <<7, 1, w>>, <<8, w, 12>>, <<8, 0, w>>,
                 <<14, R(1), w>>, <<15, R(1), w>>, <<16, w, 1>>, <<16, 20, w>>,
                 <<17, w>>, <<19, w>>}
ValProgs == UNION {{<<1, R(0), 9, 1, R(7), 11>> \o i \o <<0>> : i \in ValInstrs(w)} :
                       w \in ValWords}

\* set r1 9; mod r0 b c; mod r1 b r2; halt
ModVals == {0, 7, 32767}
ModDivisors == {0, 1, 3, 32767}
\* rmem r1 [11]; rmem r2 [12]; mod r0 r1 r2; halt; v1; v2
ModBigDivisors == {3, 40000}
ModProgs == {<<1, R(1), 9, 11, R(0), b, c, 11, R(1), b, R(2), 0>> :
                 b \in ModVals, c \in ModDivisors}
              \cup {<<15, R(1), 11, 15, R(2), 12, 11, R(0), R(1), R(2), 0, v1, v2>> :
                        v1 \in BigVals, v2 \in ModBigDivisors}

\* out r0; halt; zeros; v in the last cell: images that fill program memory,
\* reach into the registers, fill the address space, and exceed it
LongLens == {LIMIT, LIMIT + 1, Size, Size + 1}
LongImage(n, v) ==
    [i \in 1..n |-> IF i = 1 THEN 19 ELSE IF i = 2 THEN R(0) ELSE IF i = n THEN v ELSE 0]
LongProgs == {LongImage(n, 65) : n \in LongLens}

OtherProgs == {<<>>, <<18>>, <<21, 18>>, <<22>>, <<65535>>,
               \* in r0; jmp 0
               <<20, R(0), 6, 0>>,
               \* out 'A'; jmp 0
               <<19, 65, 6, 0>>,
               \* out 321; halt
               <<19, 321, 0>>}

Programs == {TestSimple} \cup WmemProgs \cup EdgeProgs \cup DestProgs \cup ArithProgs
              \cup BigProgs \cup StackProgs \cup CallProgs \cup JumpProgs \cup OtherProgs
              \cup CmpProgs \cup NotProgs \cup ValProgs \cup ModProgs
              \cup LongProgs

\* mem[0..input.len()].clone_from_slice(input), over vec![0; size]
Load(input) ==
    [a \in {i - 1 : i \in {j \in 1..Len(input) : input[j] # 0}} |-> input[a + 1]]

\* --------------------------------------------------------------- the state
VARIABLES
    mem,           \* the address space: memory cells 0..32767, registers 32768..32775
    stack,         \* Vec<u16>
    ip,            \* the instruction pointer
    input_buffer,  \* VecDeque<char>, as character codes
    debug,         \* the trace flag
    status,        \* "new", "running", "halted" (halt, ret on an empty stack),
                   \* "ranout" (ip outside the memory range), "panic"
    output,        \* the characters out printed
    pulled,        \* the lines read from the line source so far
    delivered,     \* the codes the in instructions stored so far
    reports,       \* the messages handle_debug printed so far
    image,         \* the program image the machine was constructed from
    hist,          \* the last HistLen completed stack operations
    origin         \* for every stack entry, the instruction that pushed it

vars == <<mem, stack, ip, input_buffer, debug, status, output, pulled, delivered,
          reports, image,
          hist, origin>>

\* VM::new; an image longer than the address space is refused
Init ==
    /\ \E input \in Programs : Len(input) <= Size /\ image = input /\ mem = Load(input)
    /\ stack = <<>>
    /\ ip = 0
    /\ input_buffer = <<>>
    /\ debug = FALSE
    /\ status = "new"
    /\ output = <<>>
    /\ pulled = <<>>
    /\ delivered = <<>>
    /\ reports = <<>>
    /\ hist = <<>>
    /\ origin = <<>>

\* VM::run, before the loop: the canned lines enter the input queue
RunStart ==
    /\ status = "new"
    /\ input_buffer' = add_all(input_buffer, Script)
    /\ status' = "running"
    /\ UNCHANGED <<mem, stack, ip, debug, output, pulled, delivered, reports, image, hist, origin>>

\* ------------------------------------------------------------- the loop
\* mutant: the bound check is off by one
InRange_late == ~(ip > Size)

\* not (self.ip + 1 > self.mem.len())
InRange == ~(ip + 1 > Size)

\* let instr = self.mem[self.ip]; match instr
Fetch(instr) == status = "running" /\ InRange /\ Read(mem, ip) = instr

\* self.mem[self.ip + k]
Arg(k) == Read(mem, ip + k)

Remember(h, e) ==
    LET x == Append(h, e) IN IF Len(x) > HistLen THEN Tail(x) ELSE x

\* a panic before anything was changed
Abort ==
    /\ status' = "panic"
    /\ UNCHANGED <<mem, stack, ip, input_buffer, debug, output, pulled, delivered, reports, image,
                   hist, origin>>

\* mutant: ip moves on by one cell only, whatever the operand count
Stored_one(m, n) ==
    /\ mem' = m
    /\ ip' = ip + 1
    /\ UNCHANGED <<stack, input_buffer, debug, status, output, pulled, delivered,
                   reports, image, hist, origin>>

\* the step stored into the address space and moved on by n cells
Stored(m, n) ==
    /\ mem' = m
    /\ ip' = ip + n
    /\ UNCHANGED <<stack, input_buffer, debug, status, output, pulled, delivered, reports, image,
                   hist, origin>>

OutOfRange ==
    /\ status = "running"
    /\ ~InRange
    /\ status' = "ranout"
    /\ UNCHANGED <<mem, stack, ip, input_buffer, debug, output, pulled, delivered, reports, image,
                   hist, origin>>

Halt ==
    /\ Fetch(0)
    /\ status' = "halted"
    /\ UNCHANGED <<mem, stack, ip, input_buffer, debug, output, pulled, delivered, reports, image,
                   hist, origin>>

Set ==
    /\ Fetch(1)
    /\ IF IndexOk(ip + 2) /\ convert_arg_ok(Arg(2)) /\ store_ok(Arg(1))
       THEN Stored(store(mem, Arg(1), convert_arg(mem, Arg(2))), 3)
       ELSE Abort

Push ==
    /\ Fetch(2)
    /\ Len(stack) < MaxStack
    /\ IF IndexOk(ip + 1) /\ convert_arg_ok(Arg(1))
       THEN LET a_val == convert_arg(mem, Arg(1))
            IN /\ stack' = stack_push(stack, a_val)
               /\ ip' = ip + 2
               /\ hist' = Remember(hist, [op |-> "push", val |-> a_val, before |-> stack])
               /\ origin' = Append(origin, [op |-> "push", at |-> ip, before |-> stack])
               /\ UNCHANGED <<mem, input_buffer, debug, status, output, pulled, delivered, reports, image>>
       ELSE Abort

Pop ==
    /\ Fetch(3)
    /\ IF IndexOk(ip + 1) /\ vec_pop(stack) >= 0
       THEN LET a == Arg(1)
                val == vec_pop(stack)
            IN /\ stack' = stack_pop(stack)
               /\ origin' = SubSeq(origin, 1, Len(origin) - 1)
               /\ IF store_ok(a)
                  THEN /\ mem' = store(mem, a, val)
                       /\ ip' = ip + 2
                       /\ hist' = Remember(hist, [op |-> "pop", val |-> Read(mem', a),
                                                  before |-> stack])
                       /\ UNCHANGED status
                  ELSE /\ status' = "panic"
                       /\ UNCHANGED <<mem, ip, hist>>
               /\ UNCHANGED <<input_buffer, debug, output, pulled, delivered, reports, image>>
       ELSE Abort

eq_result(b_val, c_val) == IF b_val = c_val THEN 1 ELSE 0

\* mutant: gt compares with >=
gt_result_ge(b_val, c_val) == IF b_val >= c_val THEN 1 ELSE 0

gt_result(b_val, c_val) == IF b_val > c_val THEN 1 ELSE 0

\* the operands of a three-operand instruction can be read and resolved
Alu3Ok ==
    IndexOk(ip + 3) /\ convert_arg_ok(Arg(2)) /\ convert_arg_ok(Arg(3))

BVal == convert_arg(mem, Arg(2))
CVal == convert_arg(mem, Arg(3))

Eq ==
    /\ Fetch(4)
    /\ IF Alu3Ok /\ store_ok(Arg(1))
       THEN Stored(store(mem, Arg(1), eq_result(BVal, CVal)), 4)
       ELSE Abort

Gt ==
    /\ Fetch(5)
    /\ IF Alu3Ok /\ store_ok(Arg(1))
       THEN Stored(store(mem, Arg(1), gt_result(BVal, CVal)), 4)
       ELSE Abort

\* the step set ip to target and changed nothing else
Jumped(target) ==
    /\ ip' = target
    /\ UNCHANGED <<mem, stack, input_buffer, debug, status, output, pulled, delivered, reports, image,
                   hist, origin>>

Jmp ==
    /\ Fetch(6)
    /\ IF IndexOk(ip + 1) /\ convert_arg_ok(Arg(1))
       THEN Jumped(convert_arg(mem, Arg(1)))
       ELSE Abort

\* if a_val != 0 (jt), if a_val == 0 (jf)
jt_taken(a_val) == a_val # 0

\* mutant: jf jumps on the condition of jt
jf_taken_as_jt(a_val) == a_val # 0

jf_taken(a_val) == a_val = 0

Jt ==
    /\ Fetch(7)
    /\ IF IndexOk(ip + 2) /\ convert_arg_ok(Arg(1)) /\ convert_arg_ok(Arg(2))
       THEN IF jt_taken(convert_arg(mem, Arg(1)))
            THEN Jumped(convert_arg(mem, Arg(2)))
            ELSE Jumped(ip + 3)
       ELSE Abort

Jf ==
    /\ Fetch(8)
    /\ IF IndexOk(ip + 2) /\ convert_arg_ok(Arg(1)) /\ convert_arg_ok(Arg(2))
       THEN IF jf_taken(convert_arg(mem, Arg(1)))
            THEN Jumped(convert_arg(mem, Arg(2)))
            ELSE Jumped(ip + 3)
       ELSE Abort

Add ==
    /\ Fetch(9)
    /\ IF Alu3Ok
       THEN IF add_overflows(BVal, CVal)
            THEN \/ Abort
                 \/ IF store_ok(Arg(1))
                    THEN Stored(store(mem, Arg(1), add_result(BVal, CVal)), 4)
                    ELSE Abort
            ELSE IF store_ok(Arg(1))
                 THEN Stored(store(mem, Arg(1), add_result(BVal, CVal)), 4)
                 ELSE Abort
       ELSE Abort

Mult ==
    /\ Fetch(10)
    /\ IF Alu3Ok /\ store_ok(Arg(1))
       THEN Stored(store(mem, Arg(1), mult_result(BVal, CVal)), 4)
       ELSE Abort

\* b_val % c_val panics when c_val is 0
Mod ==
    /\ Fetch(11)
    /\ IF Alu3Ok /\ CVal # 0 /\ store_ok(Arg(1))
       THEN Stored(store(mem, Arg(1), mod_result(BVal, CVal)), 4)
       ELSE Abort

And ==
    /\ Fetch(12)
    /\ IF Alu3Ok /\ store_ok(Arg(1))
       THEN Stored(store(mem, Arg(1), BitAnd(BVal, CVal)), 4)
       ELSE Abort

Or ==
    /\ Fetch(13)
    /\ IF Alu3Ok /\ store_ok(Arg(1))
       THEN Stored(store(mem, Arg(1), BitOr(BVal, CVal)), 4)
       ELSE Abort

Not ==
    /\ Fetch(14)
    /\ IF IndexOk(ip + 2) /\ convert_arg_ok(Arg(2)) /\ store_ok(Arg(1))
       THEN Stored(store(mem, Arg(1), not_result(convert_arg(mem, Arg(2)))), 3)
       ELSE Abort

\* self.mem[b_val as usize] panics when b_val is out of bounds
Rmem ==
    /\ Fetch(15)
    /\ IF IndexOk(ip + 2) /\ convert_arg_ok(Arg(2))
           /\ IndexOk(convert_arg(mem, Arg(2))) /\ store_ok(Arg(1))
       THEN Stored(store(mem, Arg(1), Read(mem, convert_arg(mem, Arg(2)))), 3)
       ELSE Abort

\* self.mem[a_val as usize] = b_val: the cell wmem writes
wmem_target(a_val) == a_val

Wmem ==
    /\ Fetch(16)
    /\ IF IndexOk(ip + 2) /\ convert_arg_ok(Arg(1)) /\ convert_arg_ok(Arg(2))
           /\ IndexOk(wmem_target(convert_arg(mem, Arg(1))))
       THEN Stored(Write(mem, wmem_target(convert_arg(mem, Arg(1))),
                         convert_arg(mem, Arg(2))), 3)
       ELSE Abort

Call ==
    /\ Fetch(17)
    /\ Len(stack) < MaxStack
    /\ IF IndexOk(ip + 1) /\ convert_arg_ok(Arg(1))
       THEN LET a_val == convert_arg(mem, Arg(1))
            IN /\ stack' = stack_push(stack, call_return(ip))
               /\ ip' = a_val
               /\ hist' = Remember(hist, [op |-> "call", val |-> call_return(ip),
                                          before |-> stack])
               /\ origin' = Append(origin, [op |-> "call", at |-> ip, before |-> stack])
               /\ UNCHANGED <<mem, input_buffer, debug, status, output, pulled, delivered, reports, image>>
       ELSE Abort

\* mutant: ret unwraps the empty pop
ret_empty_panic == "panic"

\* what ret does when the stack is empty: break
ret_empty == "halted"

Ret ==
    /\ Fetch(18)
    /\ IF Len(stack) = 0
       THEN /\ status' = ret_empty
            /\ UNCHANGED <<mem, stack, ip, input_buffer, debug, output, pulled,
                           delivered, reports, image, hist, origin>>
       ELSE LET val == vec_pop(stack)
            IN /\ stack' = stack_pop(stack)
               /\ origin' = SubSeq(origin, 1, Len(origin) - 1)
               /\ ip' = val
               /\ hist' = Remember(hist, [op |-> "ret", val |-> val, before |-> stack])
               /\ UNCHANGED <<mem, input_buffer, debug, status, output, pulled, delivered, reports, image>>

Out ==
    /\ Fetch(19)
    /\ Len(output) < MaxOut
    /\ IF IndexOk(ip + 1) /\ convert_arg_ok(Arg(1))
       THEN /\ output' = Append(output, out_char(convert_arg(mem, Arg(1))))
            /\ ip' = ip + 2
            /\ UNCHANGED <<mem, stack, input_buffer, debug, status, pulled, delivered, reports, image,
                           hist, origin>>
       ELSE Abort

\* the end of opcode 20, with memory m, flag d and queue buf after the pull
\* loop: read the operand, pop the front of the queue, store it
Deliver(m, d, buf) ==
    /\ debug' = d
    /\ IF IndexOk(ip + 1)
       THEN LET a == Read(m, ip + 1)
                r == in_code(Head(buf))
            IN /\ input_buffer' = Tail(buf)
               /\ IF store_ok(a)
                  THEN /\ mem' = store(m, a, r)
                       /\ ip' = ip + 2
                       /\ delivered' = Append(delivered, r)
                       /\ UNCHANGED status
                  ELSE /\ mem' = m
                       /\ status' = "panic"
                       /\ UNCHANGED <<ip, delivered>>
       ELSE /\ mem' = m
            /\ input_buffer' = buf
            /\ status' = "panic"
            /\ UNCHANGED <<ip, delivered>>

In ==
    /\ Fetch(20)
    /\ IF Len(input_buffer) = 0
       THEN \E ls \in Pulls :
                LET r == pull(mem, debug, ls, 0)
                IN /\ Len(pulled) + Len(ls) <= MaxPulled
                   /\ r.n = Len(ls)
                   /\ r.done \/ r.panic
                   /\ pulled' = pulled \o ls
                   /\ reports' = reports \o r.msgs
                   /\ IF r.panic
                      THEN /\ mem' = r.mem
                           /\ debug' = r.debug
                           /\ input_buffer' = r.buf
                           /\ status' = "panic"
                           /\ UNCHANGED <<ip, delivered>>
                      ELSE Deliver(r.mem, r.debug, r.buf)
       ELSE /\ Deliver(mem, debug, input_buffer)
            /\ UNCHANGED <<pulled, reports>>
    /\ UNCHANGED <<stack, output, image, hist, origin>>

Noop ==
    /\ Fetch(21)
    /\ Jumped(ip + 1)

\* the opcodes the dispatch knows
Opcodes == 0..21

InvalidOp ==
    /\ status = "running"
    /\ InRange
    /\ Read(mem, ip) \notin Opcodes
    /\ Abort

Next ==
    \/ RunStart
    \/ OutOfRange
    \/ Halt
    \/ Set
    \/ Push
    \/ Pop
    \/ Eq
    \/ Gt
    \/ Jmp
    \/ Jt
    \/ Jf
    \/ Add
    \/ Mult
    \/ Mod
    \/ And
    \/ Or
    \/ Not
    \/ Rmem
    \/ Wmem
    \/ Call
    \/ Ret
    \/ Out
    \/ In
    \/ Noop
    \/ InvalidOp

Spec == Init /\ [][Next]_vars

TypeOK ==
    /\ \A a \in DOMAIN mem : a \in 0..(Size - 1) /\ mem[a] \in 1..(U16 - 1)
    /\ \A i \in 1..Len(stack) : stack[i] \in 0..(U16 - 1)
    /\ ip \in 0..(U16 - 1)
    /\ debug \in BOOLEAN
    /\ status \in {"new", "running", "halted", "ranout", "panic"}
    /\ Len(origin) = Len(stack)

\* ================================================================ claims
\* the program-memory cells (0..32767) of a memory
ProgramCells(m) == [a \in {x \in DOMAIN m : x < LIMIT} |-> m[a]]

\* the register cells of a memory
Registers(m) == [i \in 0..(NumRegs - 1) |-> regs(m, i)]

RegisterWords == LIMIT..(LIMIT + NumRegs - 1)

Last(s) == s[Len(s)]

\* C1: run on the program [9,32768,32769,4,19,32768], the machine never
\* aborts, and once it has stopped it has halted with ip = 6, register 0
\* equal to 4 and exactly one character, of code 4, emitted.
C1_TestSimple ==
    ProgramCells(mem) = Load(TestSimple) =>
        /\ status # "panic" /\ status # "ranout"
        /\ status = "halted" => ip = 6 /\ regs(mem, 0) = 4 /\ output = <<4>>
        /\ Len(output) <= 1

C1_Witness ==
    ProgramCells(mem) = Load(TestSimple) /\ status = "halted" /\ output = <<4>>

\* C2 (as claimed): a wmem step leaves the eight register cells unchanged.
C2_WmemNeverWritesRegister ==
    [][Fetch(16) => Registers(mem') = Registers(mem)]_vars

\* the number of operand cells each opcode reads
OperandCount(op) ==
    IF op \in {0, 18, 21} THEN 0
    ELSE IF op \in {2, 3, 6, 17, 19, 20} THEN 1
    ELSE IF op \in {1, 7, 8, 14, 15, 16} THEN 2
    ELSE 3

\* fetching runs off the end of the address space: the opcode cell, or an
\* operand cell of the instruction at ip, lies at or beyond index Size
RunsOffEnd ==
    /\ status = "running"
    /\ \/ ~InRange
       \/ Read(mem, ip) \in Opcodes /\ ~IndexOk(ip + OperandCount(Read(mem, ip)))

\* C3 (as claimed): a step whose fetching runs off the end of the address
\* space ends in the graceful out-of-range halt, never in a fatal abort.
C3_RunOffEndIsGraceful ==
    [][RunsOffEnd => status' = "ranout"]_vars

\* C4 (as claimed): a register-writing instruction whose destination word is
\* no register selector aborts and modifies no program-memory cell.
C4_NonRegisterDestinationAborts ==
    [][(/\ status = "running" /\ InRange
        /\ Read(mem, ip) \in RegWriters
        /\ IndexOk(ip + 1)
        /\ Arg(1) \notin RegisterWords)
       => (status' = "panic" /\ ProgramCells(mem') = ProgramCells(mem))]_vars

\* C5: a completed call at p pushes p + 2 and sets ip to the resolved target;
\* a ret that finds the entry of a call at p on top of the stack sets ip to
\* p + 2 and leaves the stack as it was just before that call.
C5_CallRet ==
    [][/\ (Fetch(17) /\ status' = "running")
          => (stack' = Append(stack, ip + 2) /\ ip' = convert_arg(mem, Arg(1)))
       /\ (Fetch(18) /\ Len(stack) > 0 /\ Last(origin).op = "call")
          => (ip' = Last(origin).at + 2 /\ stack' = Last(origin).before)]_vars

\* a ret has just returned to the instruction after the call whose body
\* used the stack in between
C5_Witness ==
    /\ Len(hist) >= 4
    /\ hist[Len(hist)].op = "ret"
    /\ hist[Len(hist) - 1].op = "pop"
    /\ hist[Len(hist) - 3].op = "call"
    /\ ip = hist[Len(hist) - 3].val
    /\ stack = hist[Len(hist) - 3].before

\* a line of the line source that begins with the reserved prefix
IsDirectiveLine(line) == line # <<>> /\ line[1] = DOT

\* the lines pulled so far that are not directives
PlainPulled == SelectSeq(pulled, LAMBDA l : ~IsDirectiveLine(l))

\* the codes of lines ls, each followed by the line terminator
RECURSIVE Codes(_)
Codes(ls) == IF ls = <<>> THEN <<>> ELSE Head(ls) \o <<NL>> \o Codes(Tail(ls))

IsPrefix(s, t) == Len(s) <= Len(t) /\ SubSeq(t, 1, Len(s)) = s

\* the 16-bit codes of a sequence of characters
Codes16(s) == [i \in 1..Len(s) |-> s[i] % 65536]

\* the codes of the canned lines
ScriptCodes == Codes16(Codes(Script))

\* the codes of the canned lines, then of the lines ls
Stream(ls) == ScriptCodes \o Codes16(Codes(ls))

\* C6: the codes delivered to in, followed by the queue, are the codes of the
\* canned lines and of the pulled lines that are no directives: no character of
\* a directive line is delivered or left in the queue, and when in completes
\* the last line pulled is no directive (the next line was pulled).
C6_DirectiveNeverDelivered ==
    /\ IsPrefix(delivered, Stream(PlainPulled))
    /\ status \in {"running", "halted", "ranout"} =>
         /\ delivered \o Codes16(input_buffer) = Stream(PlainPulled)
         /\ pulled # <<>> => ~IsDirectiveLine(Last(pulled))

\* a directive line was pulled and a code of the line after it delivered
C6_Witness ==
    /\ status = "running"
    /\ \E i \in 1..Len(pulled) : IsDirectiveLine(pulled[i])
    /\ Len(delivered) > Len(ScriptCodes)

\* C7: with resolved operands in 0..32767 and a register as destination, add
\* and mult complete and store (b + c) mod 32768 and (b * c) mod 32768, a
\* value in 0..32767.
C7_AddMultModulo ==
    [][(/\ (Fetch(9) \/ Fetch(10))
        /\ Alu3Ok
        /\ BVal \in 0..(LIMIT - 1) /\ CVal \in 0..(LIMIT - 1)
        /\ Arg(1) \in RegisterWords)
       => /\ status' = "running"
          /\ ip' = ip + 4
          /\ Read(mem', Arg(1)) \in 0..(LIMIT - 1)
          /\ Fetch(9) => Read(mem', Arg(1)) = (BVal + CVal) % 32768
          /\ Fetch(10) => Read(mem', Arg(1)) = (BVal * CVal) % 32768]_vars

\* 32767 + 1 gave 0 and 32767 * 1 gave 32767
C7_Witness ==
    /\ status = "halted" /\ ip = 8
    /\ Read(mem, 0) = 9 /\ Read(mem, 2) = 32767 /\ Read(mem, 3) = 1
    /\ regs(mem, 0) = 0 /\ regs(mem, 1) = 32767

\* the last six stack operations were three pushes, then three pops
PushPushPushPopPopPop ==
    /\ Len(hist) >= 6
    /\ \A i \in 0..2 : hist[Len(hist) - 5 + i].op = "push"
    /\ \A i \in 0..2 : hist[Len(hist) - 2 + i].op = "pop"

\* C8: after push a, push b, push c and three pops with no other stack
\* operation in between, the pops wrote c, b, a in that order and the stack is
\* the one before the first push.
C8_Lifo ==
    PushPushPushPopPopPop =>
        LET n == Len(hist)
        IN /\ hist[n - 2].val = hist[n - 3].val
           /\ hist[n - 1].val = hist[n - 4].val
           /\ hist[n].val = hist[n - 5].val
           /\ stack = hist[n - 5].before

C8_Witness ==
    /\ PushPushPushPopPopPop
    /\ hist[Len(hist) - 5].val # hist[Len(hist) - 3].val
    /\ stack # <<>>

\* C9: ret on an empty stack ends the run as halt does, and changes neither
\* memory, registers, stack nor ip.
C9_RetEmptyHalts ==
    [][/\ (Fetch(18) /\ Len(stack) = 0)
          => (status' = "halted" /\ UNCHANGED <<mem, stack, ip>>)
       /\ Fetch(0) => status' = "halted"]_vars

C9_Witness ==
    status = "halted" /\ Read(mem, ip) = 18 /\ stack = <<>>

\* C10: pop on an empty stack aborts; the destination is not written and ip
\* is not advanced.
C10_PopEmptyAborts ==
    [][(Fetch(3) /\ Len(stack) = 0)
       => (status' = "panic" /\ UNCHANGED <<mem, stack, ip>>)]_vars

C10_Witness ==
    status = "panic" /\ Read(mem, ip) = 3 /\ stack = <<>> /\ IndexOk(ip + 1)
        /\ Arg(1) \in RegisterWords

\* C11: a completed eq or gt leaves exactly 0 or 1 in its destination: eq
\* leaves 1 iff value(b) = value(c), gt leaves 1 iff value(b) > value(c).
C11_EqGtBoolean ==
    [][((Fetch(4) \/ Fetch(5)) /\ Alu3Ok /\ store_ok(Arg(1)))
       => /\ status' = "running"
          /\ Read(mem', Arg(1)) \in {0, 1}
          /\ Fetch(4) => (Read(mem', Arg(1)) = 1 <=> BVal = CVal)
          /\ Fetch(5) => (Read(mem', Arg(1)) = 1 <=> BVal > CVal)]_vars

\* eq r0 1 0 left 0 and gt r1 1 0 left 1
C11_Witness ==
    /\ status = "halted" /\ ip = 8
    /\ Read(mem, 0) = 4 /\ Read(mem, 2) = 1 /\ Read(mem, 3) = 0
    /\ regs(mem, 0) = 0 /\ regs(mem, 1) = 1

\* C12: a completed not leaves 32767 minus the low 15 bits of its resolved
\* operand, a value of at most 32767, in its destination (32767 for 0).
C12_NotComplement ==
    [][(Fetch(14) /\ IndexOk(ip + 2) /\ convert_arg_ok(Arg(2)) /\ store_ok(Arg(1)))
       => /\ status' = "running"
          /\ Read(mem', Arg(1)) <= 32767
          /\ Read(mem', Arg(1)) = 32767 - (convert_arg(mem, Arg(2)) % 32768)
          /\ convert_arg(mem, Arg(2)) = 0 => Read(mem', Arg(1)) = 32767]_vars

\* not r0 r1 with 40000 in r1 left 32767 - 7232 in r0
C12_Witness ==
    /\ status = "halted"
    /\ Read(mem, 3) = 14 /\ Read(mem, 4) = R(0) /\ Read(mem, 5) = R(1)
    /\ regs(mem, 1) = 40000 /\ regs(mem, 0) = 25535

\* the value of operand word w, for w in 0..32775
Resolve(w) == IF w < LIMIT THEN w ELSE Read(mem, w)

\* the operands of an opcode that are resolved as values
ValuePositions(op) ==
    IF op = 1 THEN {2}
    ELSE IF op \in {2, 6, 17, 19} THEN {1}
    ELSE IF op \in {4, 5, 9, 10, 11, 12, 13} THEN {2, 3}
    ELSE IF op \in {7, 8, 16} THEN {1, 2}
    ELSE IF op \in {14, 15} THEN {2}
    ELSE {}

\* the instruction at ip has a value operand above 32775
InvalidValueOperand ==
    /\ status = "running" /\ InRange
    /\ Read(mem, ip) \in Opcodes
    /\ IndexOk(ip + OperandCount(Read(mem, ip)))
    /\ \E k \in ValuePositions(Read(mem, ip)) : Arg(k) > 32775

\* C13: a value operand below 32768 is used as it is, one in 32768..32775
\* gives the content of its register (seen in what push pushes, jmp jumps to
\* and set stores), and one above 32775, 32776 included, aborts the step with
\* nothing changed.
C13_ValueResolution ==
    [][/\ InvalidValueOperand
          => (status' = "panic"
              /\ UNCHANGED <<mem, stack, ip, input_buffer, debug, output>>)
       /\ (Fetch(2) /\ IndexOk(ip + 1) /\ Arg(1) <= 32775)
          => stack' = Append(stack, Resolve(Arg(1)))
       /\ (Fetch(6) /\ IndexOk(ip + 1) /\ Arg(1) <= 32775)
          => ip' = Resolve(Arg(1))
       /\ (Fetch(1) /\ IndexOk(ip + 2) /\ Arg(2) <= 32775 /\ Arg(1) \in RegisterWords)
          => Read(mem', Arg(1)) = Resolve(Arg(2))]_vars

\* push of the word 32776 aborted
C13_Witness ==
    status = "panic" /\ Read(mem, ip) = 2 /\ IndexOk(ip + 1) /\ Arg(1) = 32776

\* C15: a step taken with ip >= 32776 is the out-of-range halt and changes
\* neither memory, registers, stack nor ip; a step taken with ip < 32776
\* dispatches on the cell at ip, a register cell included: 0 halts, 21 moves
\* ip on by one, a word that is no opcode aborts.
C15_FetchBound ==
    [][status = "running"
       => IF ip >= 32776
          THEN status' = "ranout" /\ UNCHANGED <<mem, stack, ip, input_buffer, output>>
          ELSE /\ status' # "ranout"
               /\ Read(mem, ip) = 0 => status' = "halted"
               /\ Read(mem, ip) = 21 => (status' = "running" /\ ip' = ip + 1)
               /\ Read(mem, ip) \notin 0..21 => status' = "panic"]_vars

\* the noop held by register 7 was executed at ip 32775, then ip left the range
C15_Witness ==
    status = "ranout" /\ ip = 32776 /\ regs(mem, 7) = 21

\* C16: every completed in removes exactly one code from the front of the
\* queue and stores it; lines are pulled only when the queue is empty; and
\* the codes delivered so far, followed by the queue, are the 16-bit codes of
\* the canned lines and of the pulled lines that are no directives, in order
\* of arrival, each followed by the line terminator.
C16_InputFifo ==
    [][(Fetch(20) /\ status' = "running")
       => LET stream == Stream(PlainPulled')
              n == Len(delivered)
          IN /\ pulled' # pulled => input_buffer = <<>>
             /\ pulled' = pulled => input_buffer' = Tail(input_buffer)
             /\ delivered' = SubSeq(stream, 1, n + 1)
             /\ Codes16(input_buffer') = SubSeq(stream, n + 2, Len(stream))
             /\ (pulled' = pulled /\ store_ok(Arg(1)) /\ Arg(1) # ip + 1)
                => Read(mem', Arg(1)) = stream[n + 1]]_vars

\* two lines were pulled one after the other and delivered to the end
C16_Witness ==
    /\ status = "running"
    /\ pulled = <<LineA, LineWide>>
    /\ input_buffer = <<>>
    /\ SubSeq(delivered, Len(delivered) - 3, Len(delivered)) = <<97, 10, 62976, 10>>

\* the opcodes that are no control transfer and do not stop the machine
NonControl == {1, 2, 3, 4, 5, 9, 10, 11, 12, 13, 14, 15, 16, 19, 20, 21}

\* C17: a completed instruction that is no control transfer moves ip on by
\* one plus its operand count; jmp, call and a taken jt or jf set ip to the
\* resolved target, ret to the popped word, with no further advance.
C17_IpAdvance ==
    [][(status = "running" /\ InRange /\ status' = "running")
       => LET op == Read(mem, ip)
          IN /\ op \in NonControl => ip' = ip + 1 + OperandCount(op)
             /\ op \in {6, 17} => ip' = Resolve(Arg(1))
             /\ (op = 7 /\ Resolve(Arg(1)) # 0) => ip' = Resolve(Arg(2))
             /\ (op = 8 /\ Resolve(Arg(1)) = 0) => ip' = Resolve(Arg(2))
             /\ op = 18 => ip' = Last(stack)]_vars

\* call 5; push 8; pop r0; ret; out 'A'; halt has run to its end
C17_Witness ==
    /\ status = "halted" /\ ip = 4 /\ Read(mem, 0) = 17
    /\ output = <<65>> /\ regs(mem, 0) = 8

\* C18: jt sets ip to value(addr) iff value(cond) # 0, jf iff value(cond) = 0,
\* and both move ip on by 3 otherwise; neither changes memory, registers or
\* the stack.
C18_ConditionalJumps ==
    [][/\ (Fetch(7) /\ IndexOk(ip + 2) /\ Arg(1) <= 32775 /\ Arg(2) <= 32775)
          => /\ ip' = IF Resolve(Arg(1)) # 0 THEN Resolve(Arg(2)) ELSE ip + 3
             /\ UNCHANGED <<mem, stack, status>>
       /\ (Fetch(8) /\ IndexOk(ip + 2) /\ Arg(1) <= 32775 /\ Arg(2) <= 32775)
          => /\ ip' = IF Resolve(Arg(1)) = 0 THEN Resolve(Arg(2)) ELSE ip + 3
             /\ UNCHANGED <<mem, stack, status>>]_vars

\* jf 0 4 jumped to the out at 4
C18_Witness ==
    /\ status = "halted" /\ Read(mem, 0) = 8 /\ Read(mem, 1) = 0
    /\ output = <<66>> /\ ip = 6

\* C19: out appends one character, the resolved operand modulo 256, to the
\* output, moves ip on by 2 and changes nothing else.
C19_OutTruncates ==
    [][(Fetch(19) /\ IndexOk(ip + 1) /\ Arg(1) <= 32775)
       => /\ output' = Append(output, Resolve(Arg(1)) % 256)
          /\ ip' = ip + 2
          /\ UNCHANGED <<mem, stack, input_buffer, debug, status>>]_vars

\* out 321 printed the character 65
C19_Witness ==
    output = <<65>> /\ Read(mem, 0) = 19 /\ Read(mem, 1) = 321

\* the directive lines with an unknown name, and those with missing or
\* unparseable arguments or a register number outside 0..7
UnknownDirectives == {LineDot, LineUnknown}
MalformedDirectives == {LineWmemBad, LineWmemShort, LineWregParse, LineWregBad}

\* the lines pulled by the step, and the directives among them
NewLines == SubSeq(pulled', Len(pulled) + 1, Len(pulled'))
NewDirectives == SelectSeq(NewLines, IsDirectiveLine)
NewReports == SubSeq(reports', Len(reports) + 1, Len(reports'))

\* the step pulled directives, all of them unknown or malformed
PulledOnlyBadDirectives ==
    /\ Fetch(20)
    /\ NewDirectives # <<>>
    /\ \A i \in 1..Len(NewDirectives) :
           NewDirectives[i] \in UnknownDirectives \cup MalformedDirectives

\* the directives of the step changed nothing: the in that pulled them
\* completes on the next line, whose first code is the only cell written
BadDirectivesRecovered ==
    /\ status' = "running"
    /\ debug' = debug /\ stack' = stack /\ ip' = ip + 2
    /\ \A a \in (DOMAIN mem \cup DOMAIN mem') \ {Arg(1)} : Read(mem', a) = Read(mem, a)
    /\ ~IsDirectiveLine(Last(NewLines))
    /\ delivered' \o Codes16(input_buffer')
         = delivered \o Codes16(Codes(<<Last(NewLines)>>))
    /\ Len(delivered') = Len(delivered) + 1

\* C20 (as claimed): unknown and malformed directives are each reported by a
\* message and change neither memory, registers, stack, ip, the debug flag nor
\* the queue, and the input loop goes on with the next line.
C20_BadDirectiveReportedAndRecovered ==
    [][PulledOnlyBadDirectives
       => /\ BadDirectivesRecovered
          /\ Len(NewReports) = Len(NewDirectives)
          /\ \A i \in 1..Len(NewReports) : NewReports[i] # ""]_vars

\* the step pulled lines with at least one directive among them
PulledDirective == Fetch(20) /\ NewDirectives # <<>>

\* C21 (as claimed): handling a directive line never ends the run: after every
\* directive, wmem with an address at or beyond the end of the address space
\* included, the machine is still running and the pull went on to a line that
\* is no directive.
C21_DirectiveNeverAborts ==
    [][PulledDirective
       => status' = "running" /\ ~IsDirectiveLine(Last(NewLines))]_vars

\* the divisor operand of the mod at ip can be read and resolved
DivisorOk == IndexOk(ip + 3) /\ convert_arg_ok(Arg(3))

\* C22: a mod whose divisor resolves to 0 aborts with memory, registers, stack
\* and ip unchanged; a mod with a non-zero divisor, resolvable operands and a
\* register destination stores value(b) mod value(c) in the destination alone
\* and moves ip on by 4.
C22_ModByZeroAborts ==
    [][Fetch(11) /\ DivisorOk
       => IF CVal = 0
          THEN status' = "panic" /\ mem' = mem /\ stack' = stack /\ ip' = ip
          ELSE (Alu3Ok /\ Arg(1) \in RegisterWords)
               => /\ status' = "running"
                  /\ Read(mem', Arg(1)) = BVal % CVal
                  /\ \A a \in (DOMAIN mem \cup DOMAIN mem') \ {Arg(1)} :
                         Read(mem', a) = Read(mem, a)
                  /\ stack' = stack
                  /\ ip' = ip + 4]_vars

\* mod r0 7 3 stored 1 and moved on; mod r1 7 r2 with r2 = 0 then aborted and
\* left the 9 in r1
C22_Witness ==
    /\ status = "panic" /\ ip = 7
    /\ Read(mem, 7) = 11 /\ Read(mem, 8) = R(1) /\ Read(mem, 10) = R(2)
    /\ regs(mem, 2) = 0 /\ regs(mem, 1) = 9
    /\ Read(mem, 3) = 11 /\ Read(mem, 5) = 7 /\ Read(mem, 6) = 3
    /\ regs(mem, 0) = 1

\* every cell of the image is an encoded word: a literal or a register
ValidImage == \A i \in 1..Len(image) : image[i] \in 0..(LIMIT + NumRegs - 1)

\* the lines pulled so far hold no directive and no character code above 32767
PlainInput ==
    \A i \in 1..Len(pulled) :
        /\ ~IsDirectiveLine(pulled[i])
        /\ \A j \in 1..Len(pulled[i]) : pulled[i][j] < LIMIT

\* every register and every stack element holds a 15-bit value
WordsInRange ==
    /\ \A i \in 0..(NumRegs - 1) : regs(mem, i) \in 0..(LIMIT - 1)
    /\ \A i \in 1..Len(stack) : stack[i] \in 0..(LIMIT - 1)

\* C23 (as claimed): from an image of encoded words only, with input codes
\* below 32768 and no directives, every register and every stack element holds
\* a value in 0..32767 in every reachable state.
C23_WordInvariant == (ValidImage /\ PlainInput) => WordsInRange

\* C24 (as claimed): the new machine holds the image in cells 0..len-1 and 0
\* in every other program-memory cell, all eight registers are 0, the stack is
\* empty, ip is 0 and the trace flag is off; and in every state the address
\* space has the cells 0..32775 and no other.
C24_Construction ==
    /\ status = "new"
       => /\ \A i \in 1..Len(image) : Read(mem, i - 1) = image[i]
          /\ \A a \in 0..(LIMIT - 1) : a >= Len(image) => Read(mem, a) = 0
          /\ \A i \in 0..(NumRegs - 1) : regs(mem, i) = 0
          /\ stack = <<>> /\ ip = 0 /\ debug = FALSE
    /\ Len(image) <= Size
    /\ DOMAIN mem \subseteq 0..(Size - 1)

====
